---- MODULE Spec2Model ----
(***************************************************************************)
(* Model of secloop's remediation loop (src/secloop/loop.py, RalphLoop).   *)
(*                                                                         *)
(* run() is one sequential handler; it is split into one action per        *)
(* external step (prerequisite check, scan, prompt write, agent call,      *)
(* iteration file write, re-scan, test run, end of iteration, final scan)  *)
(* so that the order of the steps is observable.  The scanner is the       *)
(* abstract Scanner of scanners/base.py: scan returns a list whose length  *)
(* is all the loop uses, run_tests returns a boolean.                      *)
(*                                                                         *)
(* Text (agent output, completion token, prompt) is a sequence of words;   *)
(* Python's `token in output` is the contiguous-subsequence test.          *)
(***************************************************************************)
EXTENDS Integers, Sequences, FiniteSets, TLC

\* ------------------------------------------------------------------ bounds

\* Largest max_iterations a caller configures (values -1..MaxIter are tried).
MaxIter == 2

\* Largest number of records a scan returns.
MaxVulns == 2

\* ------------------------------------------------------------------- state

VARIABLES
    self,           \* the RalphLoop's configuration fields
    env,            \* what the prerequisite probes find on this machine
    pc,             \* position of run()
    iteration,      \* the for loop's variable (0 before the loop)
    initial_count,  \* run's initial_count
    current_vulns,  \* run's current_vulns
    prompt,         \* run's prompt
    local,          \* locals of the _run_iteration in progress
    log,            \* the IterationResults produced so far, in order
    files,          \* the artifact directory: file name -> content
    now,            \* the wall clock, in seconds
    events,         \* the external steps taken so far, in order
    ret,            \* the LoopResult run() returned, NoResult before
    sc              \* the last call made on the scanner layer, outside a run

vars == <<self, env, pc, iteration, initial_count, current_vulns, prompt,
          local, log, files, now, events, ret, sc>>

\* ------------------------------------------------------------ program text

None == "None"

\* The default completion token, RalphLoop.__init__.
DefaultToken == <<"<COMPLETE>">>

\* Completion tokens a caller configures: the default and a phrase.
Tokens == {DefaultToken, <<"timed", "out">>}

\* prompt_template values: absent, or a caller's text.
Templates == {None, "TEMPLATE"}

\* max_iterations is an unvalidated int of the command line (cli.py:38-42).
MaxIterValues == (0 - 1)..MaxIter

\* Output the agent process can produce (stdout + stderr).
AgentOutputs == {<<"working">>, <<"fixed", "<COMPLETE>">>}

\* What subprocess.run does in _run_iteration: returns, times out, or
\* cannot be launched.
AgentOutcomes ==
    {[kind |-> "ok", text |-> o] : o \in AgentOutputs}
        \cup {[kind |-> "timeout", text |-> <<>>],
              [kind |-> "error", text |-> <<"ENOENT">>]}

\* CapturedOutput, had the handlers let the output stay empty.
CapturedOutput_SilentFailure(outcome) ==
    IF outcome.kind = "ok" THEN outcome.text ELSE <<>>

\* The text _run_iteration keeps as the iteration's output.
CapturedOutput(outcome) ==
    CASE outcome.kind = "ok" -> outcome.text
      [] outcome.kind = "timeout" -> <<"Claude", "timed", "out">>
      [] OTHER -> <<"Error", "running", "Claude:">> \o outcome.text

\* Python's `t in s` for strings.
Contains(s, t) ==
    \E i \in 0..(Len(s) - Len(t)) : SubSeq(s, i + 1, i + Len(t)) = t

\* _build_prompt: the template when it is truthy, else the generated text,
\* which lists the vulnerabilities found by the initial scan and names the
\* completion token.
BuildPrompt(template, vulnerabilities, token) ==
    IF template # None
    THEN <<template>>
    ELSE <<"# Dependency Vulnerability Patcher", ToString(vulnerabilities)>>
             \o token

\* ------------------------------------------------------------ result types

\* LoopResult of the prerequisite failure (run, first return).
PrereqFailedResult ==
    [success |-> FALSE, iterations |-> 0, initial_vulns |-> 0,
     final_vulns |-> 0, vulnerabilities_fixed |-> 0,
     message |-> <<"Prerequisites check failed">>, output_dir |-> None]

\* CleanResult, had the clean scan been reported as a failure.
CleanResult_Failure ==
    [success |-> FALSE, iterations |-> 0, initial_vulns |-> 0,
     final_vulns |-> 0, vulnerabilities_fixed |-> 0,
     message |-> <<"No vulnerabilities found!">>, output_dir |-> None]

\* LoopResult of the clean initial scan (run, second return).
CleanResult ==
    [success |-> TRUE, iterations |-> 0, initial_vulns |-> 0,
     final_vulns |-> 0, vulnerabilities_fixed |-> 0,
     message |-> <<"No vulnerabilities found!">>, output_dir |-> None]

\* CompletedResult, had it left the directory out as the early returns do.
CompletedResult_NoDir(iter, initial, result, dir) ==
    [success |-> TRUE, iterations |-> iter, initial_vulns |-> initial,
     final_vulns |-> result.vulns_after,
     vulnerabilities_fixed |-> initial - result.vulns_after,
     message |-> <<"All vulnerabilities patched!">>, output_dir |-> None]

\* LoopResult of the iteration that completed (run, third return).
CompletedResult(iter, initial, result, dir) ==
    [success |-> TRUE, iterations |-> iter, initial_vulns |-> initial,
     final_vulns |-> result.vulns_after,
     vulnerabilities_fixed |-> initial - result.vulns_after,
     message |-> <<"All vulnerabilities patched!">>, output_dir |-> dir]

\* ExhaustedResult, had success been derived from the final scan.
ExhaustedResult_SuccessIfClean(max_iterations, initial, final, dir) ==
    [success |-> final = 0, iterations |-> max_iterations,
     initial_vulns |-> initial, final_vulns |-> final,
     vulnerabilities_fixed |-> initial - final,
     message |-> <<"Did not complete within", ToString(max_iterations),
                   "iterations">>,
     output_dir |-> dir]

\* ExhaustedResult, had it reported the last iteration's count instead of
\* the final scan's.
ExhaustedResult_LastIteration(max_iterations, initial, final, dir) ==
    [success |-> FALSE, iterations |-> max_iterations,
     initial_vulns |-> initial, final_vulns |-> current_vulns,
     vulnerabilities_fixed |-> initial - current_vulns,
     message |-> <<"Did not complete within", ToString(max_iterations),
                   "iterations">>,
     output_dir |-> dir]

\* ExhaustedResult, had the number of fixes been clamped at zero.
ExhaustedResult_Clamped(max_iterations, initial, final, dir) ==
    [success |-> FALSE, iterations |-> max_iterations,
     initial_vulns |-> initial, final_vulns |-> final,
     vulnerabilities_fixed |-> IF initial > final THEN initial - final ELSE 0,
     message |-> <<"Did not complete within", ToString(max_iterations),
                   "iterations">>,
     output_dir |-> dir]

\* LoopResult of the exhausted budget (run, last return).
ExhaustedResult(max_iterations, initial, final, dir) ==
    [success |-> FALSE, iterations |-> max_iterations,
     initial_vulns |-> initial, final_vulns |-> final,
     vulnerabilities_fixed |-> initial - final,
     message |-> <<"Did not complete within", ToString(max_iterations),
                   "iterations">>,
     output_dir |-> dir]

\* IterationCompleted, had the re-scan been left out of the rule.
IterationCompleted_IgnoreScan(token_present, vulns_after, tests_passed) ==
    token_present /\ tests_passed

\* IterationCompleted, had the test run been left out of the rule.
IterationCompleted_IgnoreTests(token_present, vulns_after, tests_passed) ==
    token_present /\ vulns_after = 0

\* The completed flag of the IterationResult: the token test of the output,
\* downgraded when vulnerabilities remain or the tests fail, and and-ed once
\* more with both in the constructor call.
IterationCompleted(token_present, vulns_after, tests_passed) ==
    LET downgraded ==
            IF token_present /\ (vulns_after > 0 \/ ~tests_passed)
            THEN FALSE
            ELSE token_present
    IN  downgraded /\ vulns_after = 0 /\ tests_passed

\* PrerequisitesOK, had the dependencies file not been checked.
PrerequisitesOK_NoDepsCheck(e) ==
    e.claude /\ e.scanner_available

\* _check_prerequisites: the three checks, each an early False.
PrerequisitesOK(e) ==
    e.claude /\ e.scanner_available /\ e.deps_file

\* ShouldReturn, had the loop gone on after a completed iteration.
ShouldReturn_Never(result) == FALSE

\* ShouldReturn, had the loop trusted the re-scan alone.
ShouldReturn_OnCleanScan(result) == result.vulns_after = 0

\* run's `if result.completed:` after each iteration.
ShouldReturn(result) == result.completed

\* CallsCallback, had the callback been placed after the completed return.
CallsCallback_UnlessCompleted(result) ==
    self.on_iteration /\ ~result.completed

\* run's `if self.on_iteration:` before the callback's call.
CallsCallback(result) == self.on_iteration

\* AgentInput, had the prompt been rebuilt from the current count.
AgentInput_Rebuilt ==
    BuildPrompt(self.prompt_template, current_vulns, self.completion_token)

\* The `input=prompt` of the agent's subprocess.run.
AgentInput == prompt

\* AfterAgent, had a failed invocation been tried again.
AfterAgent_Retry(outcome) ==
    IF outcome.kind = "ok" THEN "save_output" ELSE "loop"

\* Where _run_iteration goes on after the agent's subprocess.run: both
\* handlers fall through to the write of the output file.
AfterAgent(outcome) == "save_output"

\* HasNextIteration, had the range ended one value early.
HasNextIteration_OneShort(done, max_iterations) == done + 1 < max_iterations

\* The loop's `for iteration in range(1, max_iterations + 1)`: is there a
\* next value after `done` iterations?
HasNextIteration(done, max_iterations) == done + 1 <= max_iterations

\* ----------------------------------------------------------- state helpers

\* _run_iteration's locals outside an iteration.
NoLocal ==
    [output_file |-> None, output |-> <<>>, token_present |-> FALSE,
     vulns_after |-> 0]

OutputDir == "output_dir"

\* No scanner-layer call has been made.
NoCall == [op |-> "none"]

\* run() has not returned: there is no LoopResult yet.
NoResult == [returned |-> FALSE]

\* f"iteration_{iteration}_{timestamp}.txt"
IterationFile(n, timestamp) == <<"iteration", n, timestamp>>

PromptFile == <<"prompt.md">>

\* Path.write_text: creates the file or replaces its content.
WriteText(fs, name, content) ==
    [f \in (DOMAIN fs) \cup {name} |-> IF f = name THEN content ELSE fs[f]]

Init ==
    /\ self \in [max_iterations : MaxIterValues,
                 completion_token : Tokens,
                 prompt_template : Templates,
                 on_iteration : BOOLEAN,
                 output_dir : {OutputDir}]
    /\ env \in [claude : BOOLEAN, scanner_available : BOOLEAN,
                deps_file : BOOLEAN]
    /\ pc = "start"
    /\ iteration = 0
    /\ initial_count = 0
    /\ current_vulns = 0
    /\ prompt = <<>>
    /\ local = NoLocal
    /\ log = <<>>
    /\ files = <<>>
    /\ now = 0
    /\ events = <<>>
    /\ ret = NoResult
    /\ sc = NoCall

\* ----------------------------------------------------------------- actions

\* run, lines 64-73: the prerequisite check and its early return.
CheckPrerequisites ==
    /\ pc = "start"
    /\ IF PrerequisitesOK(env)
       THEN /\ pc' = "initial_scan"
            /\ ret' = ret
       ELSE /\ pc' = "returned"
            /\ ret' = PrereqFailedResult
    /\ UNCHANGED <<sc, self, env, iteration, initial_count, current_vulns,
                   prompt, local, log, files, now, events>>

\* run, lines 75-89: the initial scan and the clean early return.
InitialScan ==
    /\ pc = "initial_scan"
    /\ \E n \in 0..MaxVulns :
        /\ events' = Append(events, [op |-> "scan", n |-> n])
        /\ initial_count' = n
        /\ IF n = 0
           THEN /\ pc' = "returned"
                /\ ret' = CleanResult
           ELSE /\ pc' = "build_prompt"
                /\ ret' = ret
    /\ UNCHANGED <<sc, self, env, iteration, current_vulns, prompt, local, log,
                   files, now>>

\* run, lines 96-104: build the prompt, save it, enter the loop.
SavePrompt ==
    /\ pc = "build_prompt"
    /\ LET p == BuildPrompt(self.prompt_template, initial_count,
                            self.completion_token)
       IN  /\ prompt' = p
           /\ files' = WriteText(files, PromptFile, p)
           /\ events' = Append(events, [op |-> "write", file |-> PromptFile,
                                        content |-> p])
    /\ current_vulns' = initial_count
    /\ pc' = "loop"
    /\ UNCHANGED <<sc, self, env, iteration, initial_count, local, log, now, ret>>

\* run line 105 and _run_iteration lines 171-192: the next iteration starts,
\* the file name is computed and the agent is invoked with the prompt.
RunClaude ==
    /\ pc = "loop"
    /\ HasNextIteration(iteration, self.max_iterations)
    /\ iteration' = iteration + 1
    /\ \E outcome \in AgentOutcomes :
        /\ local' = [NoLocal EXCEPT
                        !.output_file = IterationFile(iteration + 1, now),
                        !.output = CapturedOutput(outcome)]
        /\ events' = Append(events, [op |-> "agent", input |-> AgentInput,
                                     outcome |-> outcome.kind])
        /\ pc' = AfterAgent(outcome)
    /\ UNCHANGED <<sc, self, env, initial_count, current_vulns, prompt, log,
                   files, now, ret>>

\* _run_iteration, lines 194-198: save the output, test for the token.
SaveOutput ==
    /\ pc = "save_output"
    /\ files' = WriteText(files, local.output_file, local.output)
    /\ events' = Append(events, [op |-> "write", file |-> local.output_file,
                                 content |-> local.output])
    /\ local' = [local EXCEPT
                    !.token_present =
                        Contains(local.output, self.completion_token)]
    /\ pc' = "rescan"
    /\ UNCHANGED <<sc, self, env, iteration, initial_count, current_vulns,
                   prompt, log, now, ret>>

\* _run_iteration, lines 200-202: the re-scan.
ReScan ==
    /\ pc = "rescan"
    /\ \E n \in 0..MaxVulns :
        /\ local' = [local EXCEPT !.vulns_after = n]
        /\ events' = Append(events, [op |-> "scan", n |-> n])
    /\ pc' = "run_tests"
    /\ UNCHANGED <<sc, self, env, iteration, initial_count, current_vulns,
                   prompt, log, files, now, ret>>

\* _run_iteration, lines 204-217: the test run and the IterationResult.
RunTests ==
    /\ pc = "run_tests"
    /\ \E passed \in BOOLEAN :
        /\ events' = Append(events, [op |-> "tests", passed |-> passed])
        /\ log' = Append(log,
                [vulns_before |-> current_vulns,
                 vulns_after |-> local.vulns_after,
                 tests_passed |-> passed,
                 completed |-> IterationCompleted(local.token_present,
                                                  local.vulns_after, passed),
                 output |-> local.output])
    /\ pc' = "iteration_done"
    /\ UNCHANGED <<sc, self, env, iteration, initial_count, current_vulns,
                   prompt, local, files, now, ret>>

\* run, lines 110-134: the callback, then return or carry the count forward.
EndIteration ==
    /\ pc = "iteration_done"
    /\ LET result == log[Len(log)]
       IN  /\ events' = IF CallsCallback(result)
                        THEN Append(events, [op |-> "on_iteration",
                                             index |-> iteration,
                                             result |-> result])
                        ELSE events
           /\ IF ShouldReturn(result)
              THEN /\ pc' = "returned"
                   /\ ret' = CompletedResult(iteration, initial_count,
                                             result, self.output_dir)
                   /\ current_vulns' = current_vulns
              ELSE /\ pc' = "loop"
                   /\ ret' = ret
                   /\ current_vulns' = result.vulns_after
    /\ local' = NoLocal
    /\ UNCHANGED <<sc, self, env, iteration, initial_count, prompt, log, files,
                   now>>

\* run, lines 136-147: the budget is exhausted; final scan and return.
FinalScan ==
    /\ pc = "loop"
    /\ ~HasNextIteration(iteration, self.max_iterations)
    /\ \E n \in 0..MaxVulns :
        /\ events' = Append(events, [op |-> "scan", n |-> n])
        /\ ret' = ExhaustedResult(self.max_iterations, initial_count, n,
                                  self.output_dir)
    /\ pc' = "returned"
    /\ UNCHANGED <<sc, self, env, iteration, initial_count, current_vulns,
                   prompt, local, log, files, now>>

Next ==
    \/ CheckPrerequisites
    \/ InitialScan
    \/ SavePrompt
    \/ RunClaude
    \/ SaveOutput
    \/ ReScan
    \/ RunTests
    \/ EndIteration
    \/ FinalScan

Spec == Init /\ [][Next]_vars

\* ------------------------------------------------------------------ claims

\* The external steps of one kind, in the order they were taken.
EventsOf(op) == SelectSeq(events, LAMBDA e : e.op = op)

Returned == pc = "returned"

\* run() got past the prerequisite check and a non-clean initial scan and
\* has saved the prompt: it is in, or has been through, the iteration loop.
ReachedLoop ==
    /\ Len(events) >= 2
    /\ events[1].op = "scan"
    /\ events[1].n > 0

NoneCompleted == \A i \in DOMAIN log : ~log[i].completed

\* C1: in every iteration, completed is true exactly when the completion
\* token occurs in the output that was saved for the iteration, the
\* iteration's re-scan returned no record and its test run passed; the
\* result records that scan's count and that test verdict.
C1_CompletedIffTokenCleanTests ==
    \A i \in DOMAIN log :
        LET out == EventsOf("write")[i + 1].content
            scanned == EventsOf("scan")[i + 1].n
            passed == EventsOf("tests")[i].passed
        IN  /\ log[i].vulns_after = scanned
            /\ log[i].tests_passed = passed
            /\ log[i].completed <=>
                 (Contains(out, self.completion_token) /\ scanned = 0 /\ passed)

\* C1 witness: one iteration carried the token with failing tests and was
\* not completed, another was completed.
C1_Witness ==
    \E i, j \in DOMAIN log :
        /\ Contains(log[i].output, self.completion_token)
        /\ log[i].vulns_after = 0
        /\ ~log[i].tests_passed
        /\ ~log[i].completed
        /\ log[j].completed

\* C2: when the prerequisites hold and the initial scan returns no record,
\* run() has returned success with iterations = 0, and that scan is the
\* only external step of the run: no agent call, no test run, no other
\* scan, no iteration, no file.
C2_CleanScanReturnsAtOnce ==
    (/\ env.claude /\ env.scanner_available /\ env.deps_file
     /\ Len(events) >= 1
     /\ events[1] = [op |-> "scan", n |-> 0])
    => /\ Returned
       /\ ret.success
       /\ ret.iterations = 0
       /\ Len(events) = 1
       /\ iteration = 0
       /\ log = <<>>
       /\ files = <<>>

\* C2 witness: a run returned right after a clean initial scan.
C2_Witness ==
    /\ Returned
    /\ events = <<[op |-> "scan", n |-> 0]>>

\* C3: a run that returned after max_iterations iterations, none of them
\* completed, returned success = false, whatever the final scan found.
C3_ExhaustionIsFailure ==
    (Returned /\ ReachedLoop /\ NoneCompleted)
    => /\ Len(log) = (IF self.max_iterations < 0 THEN 0
                      ELSE self.max_iterations)
       /\ ret.success = FALSE

\* C3 witness: the budget ran out and the final scan found nothing.
C3_Witness ==
    /\ Returned /\ ReachedLoop /\ NoneCompleted
    /\ Len(log) >= 1
    /\ events[Len(events)] = [op |-> "scan", n |-> 0]

\* C4 as stated: success = true implies that some iteration was completed.
C4_SuccessImpliesCompletedIteration ==
    (Returned /\ ret.success) => \E i \in DOMAIN log : log[i].completed

\* C4 as amended: success = true implies that some iteration was completed,
\* or that the initial scan was clean and no iteration ran.
C4_SuccessImpliesCompletedOrClean ==
    (Returned /\ ret.success)
    => \/ \E i \in DOMAIN log : log[i].completed
       \/ /\ log = <<>>
          /\ events = <<[op |-> "scan", n |-> 0]>>

\* C4 witness: a successful run with a completed iteration.
C4_Witness ==
    /\ Returned
    /\ ret.success
    /\ \E i \in DOMAIN log : log[i].completed

\* C5: the iterations field of every LoopResult is at least 0 and at most
\* max_iterations.
C5_IterationsWithinBudget ==
    Returned => (0 <= ret.iterations /\ ret.iterations <= self.max_iterations)

\* C6: when the loop ends with no completed iteration, exactly one scan
\* follows the last iteration, and the result is success = false,
\* iterations = max_iterations, final_vulns = that scan's count and
\* vulnerabilities_fixed = initial count - that count.
C6_ExhaustionReportsFinalScan ==
    (Returned /\ ReachedLoop /\ NoneCompleted)
    => LET scans == EventsOf("scan")
           final == events[Len(events)]
       IN  /\ final.op = "scan"
           /\ Len(scans) = Len(log) + 2
           /\ ret.success = FALSE
           /\ ret.iterations = self.max_iterations
           /\ ret.initial_vulns = scans[1].n
           /\ ret.final_vulns = final.n
           /\ ret.vulnerabilities_fixed = scans[1].n - final.n

\* C6 witness: the budget ran out and the final scan's count differs from
\* the last iteration's vulns_after.
C6_Witness ==
    /\ Returned /\ ReachedLoop /\ NoneCompleted
    /\ Len(log) >= 1
    /\ events[Len(events)].n # log[Len(log)].vulns_after

\* C7: in every LoopResult, vulnerabilities_fixed = initial_vulns -
\* final_vulns, negative when the final count is the larger.
C7_FixedIsUnclampedDifference ==
    Returned => ret.vulnerabilities_fixed = ret.initial_vulns - ret.final_vulns

\* C7 witness: a run that ended with more vulnerabilities than it began
\* with, reported as a negative number of fixes.
C7_Witness ==
    /\ Returned
    /\ ret.final_vulns > ret.initial_vulns
    /\ ret.vulnerabilities_fixed < 0

\* C8: when claude is not resolvable, the scanner is unavailable or there
\* is no dependencies file, run() returns success = false, iterations = 0
\* at its first step: no scan, no agent call, no test run, no file written.
C8_PrerequisiteFailureIsInert ==
    (pc # "start" /\ ~(env.claude /\ env.scanner_available /\ env.deps_file))
    => /\ Returned
       /\ ret.success = FALSE
       /\ ret.iterations = 0
       /\ events = <<>>
       /\ log = <<>>
       /\ files = <<>>

\* C8 witness: a run that failed only for want of a dependencies file.
C8_Witness ==
    /\ Returned
    /\ env.claude /\ env.scanner_available /\ ~env.deps_file

\* The artifact directory holds the prompt and one transcript for each
\* iteration that ran.
Populated ==
    /\ PromptFile \in DOMAIN files
    /\ \A i \in DOMAIN log :
        \E f \in DOMAIN files :
            /\ Len(f) = Len(IterationFile(i, now))
            /\ f[1] = "iteration"
            /\ f[2] = i
            /\ files[f] = log[i].output

\* C9 as stated: every LoopResult carries the artifact directory, which is
\* populated with the prompt and the transcripts of the iterations.
C9_EveryResultCarriesPopulatedDir ==
    Returned => (ret.output_dir = self.output_dir /\ Populated)

\* C9 as amended: a LoopResult of a run that reached the iteration loop
\* carries the artifact directory, which then holds the prompt and one
\* transcript per iteration that ran; a LoopResult of a prerequisite
\* failure or of a clean initial scan carries no directory (None), and
\* that run has written no file.
C9_LoopResultsCarryPopulatedDir ==
    Returned
    => IF ReachedLoop
       THEN /\ ret.output_dir = self.output_dir
            /\ Populated
            /\ files[PromptFile] = prompt
       ELSE /\ ret.output_dir = None
            /\ files = <<>>

\* C9 witness: a run of two iterations returned by completion.
C9_Witness ==
    /\ Returned
    /\ ret.success
    /\ Len(log) >= 2

\* C10: once a run is in the iteration loop, prompt.md has been written
\* exactly once, before every agent invocation, and what was written is
\* the input of every agent invocation and the content of the file.
C10_PromptSavedOnceBeforeAgent ==
    (ReachedLoop /\ pc # "build_prompt")
    => LET W == {i \in DOMAIN events :
                    events[i].op = "write" /\ events[i].file = PromptFile}
           A == {i \in DOMAIN events : events[i].op = "agent"}
       IN  /\ Cardinality(W) = 1
           /\ \A w \in W :
                /\ files[PromptFile] = events[w].content
                /\ \A a \in A : w < a /\ events[a].input = events[w].content

\* C10 witness: two agent invocations of a run with a generated prompt,
\* the second one after the count of vulnerabilities had changed.
C10_Witness ==
    /\ Len(EventsOf("agent")) >= 2
    /\ self.prompt_template = None
    /\ current_vulns # initial_count

\* The number of events of one kind among the first k events.
CountUpTo(op, k) == Cardinality({j \in 1..k : events[j].op = op})

\* The text substituted for the output of an agent call that failed.
Descriptive(kind, out) ==
    IF kind = "timeout"
    THEN out = <<"Claude", "timed", "out">>
    ELSE /\ Len(out) > Len(<<"Error", "running", "Claude:">>)
         /\ SubSeq(out, 1, Len(<<"Error", "running", "Claude:">>)) =
                <<"Error", "running", "Claude:">>

\* C12: an agent invocation that timed out or could not be launched does
\* not end the run: the next steps are the write of a descriptive text to
\* the iteration's file, the re-scan and the test run, in this order, and
\* the iteration's IterationResult carries that text.
C12_AgentFailureDegrades ==
    \A k \in DOMAIN events :
        (events[k].op = "agent" /\ events[k].outcome # "ok")
        => LET i == CountUpTo("agent", k)
               n == Len(events)
           IN  /\ n = k => pc = "save_output"
               /\ n > k =>
                    /\ events[k + 1].op = "write"
                    /\ events[k + 1].file[2] = i
                    /\ Descriptive(events[k].outcome, events[k + 1].content)
                    /\ files[events[k + 1].file] = events[k + 1].content
               /\ n = k + 1 => pc = "rescan"
               /\ n > k + 1 => events[k + 2].op = "scan"
               /\ n = k + 2 => pc = "run_tests"
               /\ n > k + 2 =>
                    /\ events[k + 3].op = "tests"
                    /\ Len(log) >= i
                    /\ log[i].output = events[k + 1].content
                    /\ log[i].vulns_after = events[k + 2].n
                    /\ log[i].tests_passed = events[k + 3].passed

\* C12 witness: a run went on to a second iteration after an agent timeout
\* and returned after an agent launch failure.
C12_Witness ==
    /\ Returned
    /\ Len(log) >= 2
    /\ log[1].output = <<"Claude", "timed", "out">>
    /\ EventsOf("agent")[2].outcome = "error"

\* C13: with a callback set, every test run (the end of an iteration's
\* scan and test) is followed at once by one on_iteration call carrying
\* the iteration's index and IterationResult, before any further step;
\* there is no other call of it.
C13_CallbackOncePerIteration ==
    self.on_iteration
    => \A k \in DOMAIN events :
        /\ events[k].op = "tests"
           => IF k = Len(events)
              THEN pc = "iteration_done"
              ELSE LET i == CountUpTo("tests", k)
                   IN  events[k + 1] = [op |-> "on_iteration", index |-> i,
                                        result |-> log[i]]
        /\ events[k].op = "on_iteration"
           => k > 1 /\ events[k - 1].op = "tests"

\* C13 witness: the callback was called for a first iteration that went on
\* and for a second one that completed the run.
C13_Witness ==
    /\ Returned
    /\ ret.success
    /\ Len(EventsOf("on_iteration")) >= 2
    /\ events[Len(events)].op = "on_iteration"

\* The external steps of the loop after the prompt was saved, the callback
\* left out.
LoopSteps ==
    SelectSeq(SubSeq(events, 3, Len(events)),
              LAMBDA e : e.op # "on_iteration")

\* The order of the steps of an iteration.
StepOrder == <<"agent", "write", "scan", "tests">>

\* C21: the steps of the loop come in rounds of agent invocation, write of
\* the iteration's file, scan and test run, each once a round and in this
\* order, whatever a step's outcome was; the one step outside a round is
\* the final scan that ends the run.
C21_StepsInOrderOncePerIteration ==
    ReachedLoop
    => \A k \in DOMAIN LoopSteps :
        LET round == ((k - 1) \div 4) + 1
            step == LoopSteps[k]
        IN  IF k = Len(LoopSteps) /\ k % 4 = 1 /\ Returned
            THEN step.op = "scan"
            ELSE /\ step.op = StepOrder[((k - 1) % 4) + 1]
                 /\ round <= self.max_iterations
                 /\ step.op = "write" => step.file[2] = round

\* C21 witness: a first iteration whose agent timed out and whose tests
\* failed has run its four steps, and so has a second one.
C21_Witness ==
    /\ Len(LoopSteps) >= 8
    /\ LoopSteps[1].outcome = "timeout"
    /\ ~LoopSteps[4].passed
    /\ LoopSteps[5].op = "agent"

\* C22: an iteration recorded completed is the last one: no step follows
\* its test run, and the run returns success with that iteration's index
\* as iterations and that iteration's scan count as final_vulns.
C22_ReturnsAtFirstCompleted ==
    \A i \in DOMAIN log :
        log[i].completed
        => /\ i = Len(log)
           /\ pc \in {"iteration_done", "returned"}
           /\ Len(LoopSteps) = 4 * i
           /\ Returned
              => /\ ret.success
                 /\ ret.iterations = i
                 /\ ret.final_vulns = LoopSteps[4 * i - 1].n
                 /\ ret.final_vulns = log[i].vulns_after

\* C22 witness: a run returned at its first iteration with iterations to
\* spare.
C22_Witness ==
    /\ Returned
    /\ Len(log) = 1
    /\ log[1].completed
    /\ ret.iterations = 1
    /\ self.max_iterations > 1

\* C23: the first iteration's vulns_before is the initial scan's count and
\* every later iteration's is the vulns_after of the iteration before it;
\* after an iteration that did not complete, with iterations left, the run
\* has not returned, and once the callback is done the next iteration is
\* what comes.
C23_CountCarriedForward ==
    /\ \A i \in DOMAIN log :
        /\ log[i].vulns_before =
                IF i = 1 THEN events[1].n ELSE log[i - 1].vulns_after
        /\ (~log[i].completed /\ i < self.max_iterations
                               /\ Len(LoopSteps) = 4 * i)
           => /\ pc \in {"iteration_done", "loop"}
              /\ pc = "loop" => ENABLED RunClaude
    /\ \A i \in DOMAIN log : i < Len(log) => ~log[i].completed

\* C23 witness: a second iteration started from a count that the first
\* iteration's scan had changed.
C23_Witness ==
    /\ Len(log) = 2
    /\ log[1].vulns_after # events[1].n
    /\ log[2].vulns_before = log[1].vulns_after
    /\ log[2].vulns_before # log[1].vulns_before

\* C25: an iteration whose agent invocation timed out or could not be
\* launched is not recorded completed, whatever the completion token, the
\* re-scan and the test run are.
C25_FailedAgentNeverCompletes ==
    \A i \in DOMAIN log :
        EventsOf("agent")[i].outcome # "ok" => ~log[i].completed

\* C26: a run that returns success has had zero records from the last scan
\* it made, reports final_vulns = 0 and reports all of initial_vulns as
\* fixed.
C26_SuccessMeansCleanLastScan ==
    (Returned /\ ret.success)
    => /\ EventsOf("scan") # <<>>
       /\ EventsOf("scan")[Len(EventsOf("scan"))].n = 0
       /\ ret.final_vulns = 0
       /\ ret.vulnerabilities_fixed = ret.initial_vulns
       /\ ret.initial_vulns = events[1].n

\* C26 witness: a run succeeded in its second iteration after a first
\* one that had left vulnerabilities.
C26_Witness ==
    /\ Returned
    /\ ret.success
    /\ ret.iterations = 2
    /\ ret.initial_vulns > 0
    /\ log[1].vulns_after > 0
    /\ ret.vulnerabilities_fixed = ret.initial_vulns

\* C27: the iterations of the LoopResult is the number of iterations that
\* ran, of agent invocations, of iteration files written and, with a
\* callback set, of on_iteration calls.
C27_IterationsCountsWhatRan ==
    Returned
    => /\ ret.iterations = Len(log)
       /\ ret.iterations = Len(EventsOf("agent"))
       /\ ret.iterations =
            Cardinality({f \in DOMAIN files : f # PromptFile})
       /\ self.on_iteration
          => ret.iterations = Len(EventsOf("on_iteration"))

\* ------------------------------------------- repeated runs on one directory

\* Runs made on the same project, one after the other.
MaxRuns == 2

\* Seconds the wall clock can advance.
MaxClock == 1

\* The runs started so far.
RunsStarted == Len(SelectSeq(events, LAMBDA e : e.op = "new_run")) + 1

\* One command line, repeated: `secloop run . -n 1` on a project whose
\* tools are installed.
InitRuns ==
    /\ Init
    /\ self.max_iterations = 1
    /\ self.completion_token = DefaultToken
    /\ self.prompt_template = None
    /\ ~self.on_iteration
    /\ PrerequisitesOK(env)

\* RalphLoop.__init__ and run() once more, on the same project: output_dir
\* is project_path / ".ralph" again and mkdir(exist_ok=True) keeps what the
\* directory holds.
NewRun ==
    /\ pc = "returned"
    /\ RunsStarted < MaxRuns
    /\ pc' = "start"
    /\ iteration' = 0
    /\ initial_count' = 0
    /\ current_vulns' = 0
    /\ prompt' = <<>>
    /\ local' = NoLocal
    /\ log' = <<>>
    /\ ret' = NoResult
    /\ events' = Append(events, [op |-> "new_run"])
    /\ UNCHANGED <<sc, self, env, files, now>>

\* A second passes: datetime.now() of _run_iteration is read to the second.
Tick ==
    /\ now < MaxClock
    /\ now' = now + 1
    /\ UNCHANGED <<sc, self, env, pc, iteration, initial_count, current_vulns,
                   prompt, local, log, files, events, ret>>

NextRuns ==
    \/ Next
    \/ NewRun
    \/ Tick

SpecRuns == InitRuns /\ [][NextRuns]_vars

\* C11: a file of the artifact directory, once written, keeps its content
\* and is never removed, whatever step follows in this run or in a later
\* run on the same directory.
C11_ArtifactsNeverOverwritten ==
    [][\A f \in DOMAIN files : f \in DOMAIN files' /\ files'[f] = files[f]]_vars

\* ------------------------------------------------- tools that never exit

\* A subprocess.run without a timeout argument (timeout=None).
NoTimeout == 0

\* timeout=600 of the agent's subprocess.run, in seconds.
AgentTimeout == 600

\* timeout=300 of every run_tests' subprocess.run, in seconds.
TestsTimeout == 300

\* The scanners' subprocess.run of scan() is given no timeout argument.
ScanTimeout == NoTimeout

\* The external call run() is about to make, by its position.
CurrentCall ==
    CASE pc \in {"initial_scan", "rescan"} -> "scan"
      [] pc = "loop" /\ HasNextIteration(iteration, self.max_iterations)
            -> "agent"
      [] pc = "loop" /\ ~HasNextIteration(iteration, self.max_iterations)
            -> "scan"
      [] pc = "run_tests" -> "tests"
      [] OTHER -> "none"

\* The timeout argument of a call's subprocess.run.
TimeoutOf(call) ==
    CASE call = "agent" -> AgentTimeout
      [] call = "tests" -> TestsTimeout
      [] OTHER -> ScanTimeout

\* Where run() stays when a call never returns.
HungAt(call) ==
    CASE call = "agent" -> "hung_agent"
      [] call = "tests" -> "hung_tests"
      [] OTHER -> "hung_scan"

\* A run of an installed tool chain with the default settings.
InitHang ==
    /\ Init
    /\ self.completion_token = DefaultToken
    /\ self.prompt_template = None
    /\ ~self.on_iteration
    /\ PrerequisitesOK(env)

\* The tool of the current call never exits.  subprocess.run with a timeout
\* raises TimeoutExpired, which is the "timeout" outcome of RunClaude and a
\* failed verdict of RunTests; without one it waits for ever.
ToolNeverExits ==
    /\ CurrentCall # "none"
    /\ TimeoutOf(CurrentCall) = NoTimeout
    /\ pc' = HungAt(CurrentCall)
    /\ UNCHANGED <<sc, self, env, iteration, initial_count, current_vulns,
                   prompt, local, log, files, now, events, ret>>

NextHang ==
    \/ Next
    \/ ToolNeverExits

\* run() is sequential code: it always takes its next step.
SpecHang == InitHang /\ [][NextHang]_vars /\ WF_vars(NextHang)

\* C20: every run eventually returns a LoopResult, even if an external
\* tool (scanner, agent, test command) never exits, each call being bounded
\* by a timeout.
C20_EveryRunReturns == <>Returned

\* ------------------------------------------------------- scanner registry

\* Text whose letters matter is a sequence of one-character strings.
LowerCase ==
    <<"a", "b", "c", "d", "e", "f", "g", "h", "i", "j", "k", "l", "m",
      "n", "o", "p", "q", "r", "s", "t", "u", "v", "w", "x", "y", "z">>

UpperCase ==
    <<"A", "B", "C", "D", "E", "F", "G", "H", "I", "J", "K", "L", "M",
      "N", "O", "P", "Q", "R", "S", "T", "U", "V", "W", "X", "Y", "Z">>

\* str.lower(), character by character.
LowerChar(c) ==
    IF \E i \in DOMAIN UpperCase : UpperCase[i] = c
    THEN LowerCase[CHOOSE i \in DOMAIN UpperCase : UpperCase[i] = c]
    ELSE c

\* Lower, had the lookup used the identifier as given.
Lower_AsGiven(s) == s

\* str.lower()
Lower(s) == [i \in 1..Len(s) |-> LowerChar(s[i])]

\* ECOSYSTEM_SCANNERS of secloop/scanners/__init__.py.
ECOSYSTEM_SCANNERS ==
    <<"p", "i", "p">> :> "PipScanner"
    @@ <<"p", "y", "t", "h", "o", "n">> :> "PipScanner"
    @@ <<"n", "p", "m">> :> "NpmScanner"
    @@ <<"n", "o", "d", "e">> :> "NpmScanner"
    @@ <<"g", "o">> :> "GoScanner"
    @@ <<"g", "o", "l", "a", "n", "g">> :> "GoScanner"
    @@ <<"c", "a", "r", "g", "o">> :> "RustScanner"
    @@ <<"r", "u", "s", "t">> :> "RustScanner"
    @@ <<"r", "u", "b", "y">> :> "RubyScanner"
    @@ <<"g", "e", "m">> :> "RubyScanner"

\* The code point order of the characters the keys are made of.
CharRank(c) == CHOOSE i \in DOMAIN LowerCase : LowerCase[i] = c

\* Python's a < b for strings.
RECURSIVE StrLess(_, _)
StrLess(a, b) ==
    IF b = <<>> THEN FALSE
    ELSE IF a = <<>> THEN TRUE
    ELSE IF Head(a) = Head(b) THEN StrLess(Tail(a), Tail(b))
    ELSE CharRank(Head(a)) < CharRank(Head(b))

\* sorted(set(...)): the strings of a set in ascending order.
RECURSIVE Sorted(_)
Sorted(S) ==
    IF S = {} THEN <<>>
    ELSE LET least == CHOOSE x \in S : \A y \in S \ {x} : StrLess(x, y)
         IN  <<least>> \o Sorted(S \ {least})

\* get_scanner of secloop/scanners/__init__.py: the scanner class that is
\* instantiated, or the ValueError with the text of its message.
GetScanner(ecosystem) ==
    LET key == Lower(ecosystem)
    IN  IF key \in DOMAIN ECOSYSTEM_SCANNERS
        THEN [kind |-> "return", type |-> ECOSYSTEM_SCANNERS[key]]
        ELSE [kind |-> "raise", error |-> "ValueError",
              unsupported |-> ecosystem,
              supported |-> Sorted(DOMAIN ECOSYSTEM_SCANNERS)]

\* Every way of writing a word in upper and lower case letters.
RECURSIVE Casings(_)
Casings(word) ==
    IF word = <<>> THEN {<<>>}
    ELSE LET c == Head(word)
             u == UpperCase[CharRank(c)]
         IN  {<<x>> \o rest : x \in {c, u}, rest \in Casings(Tail(word))}

\* Identifiers a caller passes: every casing of every key, and identifiers
\* that are no key in any casing.
EcosystemInputs ==
    UNION {Casings(k) : k \in DOMAIN ECOSYSTEM_SCANNERS}
        \cup Casings(<<"y", "a", "r", "n">>)
        \cup {<<>>, <<"p", "i", "p", " ">>, <<"p", "i", "p", "3">>,
              <<"u", "n", "k", "n", "o", "w", "n">>}

\* A call of get_scanner.
GetScannerCall ==
    /\ sc = NoCall
    /\ \E e \in EcosystemInputs :
        sc' = [op |-> "get_scanner", input |-> e, result |-> GetScanner(e)]
    /\ UNCHANGED <<self, env, pc, iteration, initial_count, current_vulns,
                   prompt, local, log, files, now, events, ret>>

\* The identifiers the registry is said to know, in synonym pairs.
SynonymPairs ==
    {<<<<"p", "i", "p">>, <<"p", "y", "t", "h", "o", "n">>>>,
     <<<<"n", "p", "m">>, <<"n", "o", "d", "e">>>>,
     <<<<"g", "o">>, <<"g", "o", "l", "a", "n", "g">>>>,
     <<<<"c", "a", "r", "g", "o">>, <<"r", "u", "s", "t">>>>,
     <<<<"r", "u", "b", "y">>, <<"g", "e", "m">>>>}

KnownIdentifiers == {p[1] : p \in SynonymPairs} \cup {p[2] : p \in SynonymPairs}

\* Two words that differ in the case of their letters at most.
SameButCase(a, b) ==
    /\ Len(a) = Len(b)
    /\ \A i \in DOMAIN a :
        \/ a[i] = b[i]
        \/ \E j \in DOMAIN LowerCase :
            {a[i], b[i]} = {LowerCase[j], UpperCase[j]}

\* C14: get_scanner resolves any casing of a known identifier to the
\* scanner type of its lowercase form, resolves the two identifiers of a
\* synonym pair to the same type, and raises the unsupported-ecosystem
\* error, listing every known identifier, for any other identifier.
C14_RegistryIgnoresCaseAndKnowsSynonyms ==
    sc.op = "get_scanner"
    => LET r == sc.result
       IN  IF \E k \in KnownIdentifiers : SameButCase(sc.input, k)
           THEN /\ r.kind = "return"
                /\ \A k \in KnownIdentifiers :
                    SameButCase(sc.input, k) => r = GetScanner(k)
                /\ \A p \in SynonymPairs :
                    (SameButCase(sc.input, p[1]) \/ SameButCase(sc.input, p[2]))
                    => /\ r = GetScanner(p[1])
                       /\ r = GetScanner(p[2])
           ELSE /\ r.kind = "raise"
                /\ r.error = "ValueError"
                /\ {r.supported[i] : i \in DOMAIN r.supported}
                       = KnownIdentifiers
                /\ Len(r.supported) = Cardinality(KnownIdentifiers)

\* C14 witness: an identifier in mixed case resolved to a scanner.
C14_Witness ==
    /\ sc.op = "get_scanner"
    /\ sc.input = <<"G", "o", "L", "a", "n", "g">>
    /\ sc.result = [kind |-> "return", type |-> "GoScanner"]

\* ------------------------------------------- test and install commands

\* The five dependency scanners, by Scanner.name.
Scanners == {"pip", "npm", "go", "rust", "ruby"}

MaxExitCode == 2

\* Exit codes of a child process; a negative one is the signal that ended it.
ExitCodes == {0 - 9} \cup 0..MaxExitCode

\* What a child process leaves on one of its streams.
StreamTexts == {<<>>, <<"1", "failed">>}

\* The ways subprocess.run(..., capture_output=True) ends: the child has
\* exited, or the call raises.  TimeoutExpired needs a timeout argument.
Completed ==
    [kind : {"exit"}, returncode : ExitCodes,
     stdout : StreamTexts, stderr : StreamTexts]

RunOutcomes(timeout) ==
    Completed
        \cup [kind : {"raise"}, error : {"FileNotFoundError", "PermissionError"}]
        \cup IF timeout = NoTimeout THEN {}
             ELSE [kind : {"raise"}, error : {"TimeoutExpired"}]

\* How a method of a scanner ends.
Return(value) == [kind |-> "return", value |-> value]

Raise(error) == [kind |-> "raise", error |-> error]

\* A command line is a sequence of words and blanks; str.split() keeps the
\* words, and a string is true unless it is empty.
Blank == " "

Split(string) == SelectSeq(string, LAMBDA w : w # Blank)

Truthy(string) == string # None /\ string # <<>>

\* The default of run_tests' command in each scanner.
DefaultTestCommand(scanner) ==
    CASE scanner = "pip" -> <<"pytest">>
      [] scanner = "npm" -> <<"npm", Blank, "test">>
      [] scanner = "go" -> <<"go", Blank, "test", Blank, "./...">>
      [] scanner = "rust" -> <<"cargo", Blank, "test">>
      [] scanner = "ruby" -> <<"bundle", Blank, "exec", Blank, "rspec">>

\* The test commands a caller passes.
TestCommands ==
    {None, <<>>, <<Blank>>, <<"tox">>, <<"make", Blank, "check">>}

\* The except clauses of run_tests, had FileNotFoundError been left out.
TestsHandlers_TimeoutOnly ==
    [e \in {"TimeoutExpired"} |-> <<"Tests", "timed", "out">>]

\* The except clauses of run_tests: the exception caught and the text
\* returned for it, less the name of the executable.
TestsHandlers ==
    "TimeoutExpired" :> <<"Tests", "timed", "out">>
    @@ "FileNotFoundError" :> <<"Command", "not", "found:">>

\* run_tests of PipScanner, NpmScanner, GoScanner, RustScanner and
\* RubyScanner; outcome is how subprocess.run ends.  subprocess.run of an
\* empty argument list raises IndexError before any child is started.
run_tests(scanner, command, outcome) ==
    LET cmd == IF Truthy(command) THEN command
               ELSE DefaultTestCommand(scanner)
        cmd_parts == Split(cmd)
    IN  IF cmd_parts = <<>> THEN Raise("IndexError")
        ELSE IF outcome.kind = "exit"
        THEN Return(<<outcome.returncode = 0,
                      outcome.stdout \o outcome.stderr>>)
        ELSE IF outcome.error \notin DOMAIN TestsHandlers
        THEN Raise(outcome.error)
        ELSE IF outcome.error = "FileNotFoundError"
        THEN Return(<<FALSE,
                      Append(TestsHandlers[outcome.error], cmd_parts[1])>>)
        ELSE Return(<<FALSE, TestsHandlers[outcome.error]>>)

\* A call of run_tests.
RunTestsCall ==
    /\ sc = NoCall
    /\ \E s \in Scanners, c \in TestCommands, o \in RunOutcomes(TestsTimeout) :
        sc' = [op |-> "run_tests", scanner |-> s, command |-> c,
               outcome |-> o, result |-> run_tests(s, c, o)]
    /\ UNCHANGED <<self, env, pc, iteration, initial_count, current_vulns,
                   prompt, local, log, files, now, events, ret>>

\* The files install_dependencies looks for in the project.
ProjectFiles == {"requirements.txt", "pyproject.toml", "package-lock.json"}

\* The command install_dependencies runs, None when it runs none.
InstallCommand(scanner, project) ==
    CASE scanner = "pip" ->
            IF "requirements.txt" \in project
            THEN <<"pip", "install", "-r", "requirements.txt">>
            ELSE IF "pyproject.toml" \in project
            THEN <<"pip", "install", "-e", ".">>
            ELSE None
      [] scanner = "npm" ->
            IF "package-lock.json" \in project THEN <<"npm", "ci">>
            ELSE <<"npm", "install">>
      [] scanner = "go" -> <<"go", "mod", "download">>
      [] scanner = "rust" -> <<"cargo", "build">>
      [] scanner = "ruby" -> <<"bundle", "install">>

\* The except clause of install_dependencies: the exception caught and the
\* text returned for it.
InstallHandlers(scanner) ==
    "TimeoutExpired" :>
        CASE scanner \in {"pip", "npm"} -> <<"Installation", "timed", "out">>
          [] scanner = "go" -> <<"Download", "timed", "out">>
          [] scanner = "rust" -> <<"Build", "timed", "out">>
          [] scanner = "ruby" -> <<"Install", "timed", "out">>

\* install_dependencies of the five scanners.
install_dependencies(scanner, project, outcome) ==
    IF InstallCommand(scanner, project) = None
    THEN Return(<<FALSE, <<"No", "requirements.txt", "or",
                           "pyproject.toml", "found">>>>)
    ELSE IF outcome.kind = "exit"
    THEN Return(<<outcome.returncode = 0, outcome.stdout \o outcome.stderr>>)
    ELSE IF outcome.error \in DOMAIN InstallHandlers(scanner)
    THEN Return(<<FALSE, InstallHandlers(scanner)[outcome.error]>>)
    ELSE Raise(outcome.error)

\* A call of install_dependencies.
InstallDependenciesCall ==
    /\ sc = NoCall
    /\ \E s \in Scanners, p \in SUBSET ProjectFiles,
          o \in RunOutcomes(TestsTimeout) :
        sc' = [op |-> "install_dependencies", scanner |-> s, project |-> p,
               outcome |-> o, result |-> install_dependencies(s, p, o)]
    /\ UNCHANGED <<self, env, pc, iteration, initial_count, current_vulns,
                   prompt, local, log, files, now, events, ret>>

\* The call's command timed out or its executable was not found.
TimedOutOrNotFound(outcome) ==
    /\ outcome.kind = "raise"
    /\ outcome.error \in {"TimeoutExpired", "FileNotFoundError"}

\* A method has returned (False, a text that is not empty).
ReturnedFailure(result) ==
    /\ result.kind = "return"
    /\ result.value[1] = FALSE
    /\ result.value[2] # <<>>

\* The command is the scanner's default or has a word in it.
NamesExecutable(command) == ~Truthy(command) \/ Split(command) # <<>>

\* C17: run_tests of every scanner, given a command that names an
\* executable, returns (False, message) when the command timed out or the
\* executable was not found, the message saying which of the two and, for
\* the latter, naming the executable; when the command has exited, it
\* returns passed = TRUE exactly for exit code 0.
C17_RunTestsDegrades ==
    sc.op = "run_tests" /\ NamesExecutable(sc.command)
    => /\ TimedOutOrNotFound(sc.outcome)
          => /\ ReturnedFailure(sc.result)
             /\ IF sc.outcome.error = "TimeoutExpired"
                THEN Contains(sc.result.value[2], <<"timed", "out">>)
                ELSE /\ Contains(sc.result.value[2], <<"not", "found:">>)
                     /\ \E w \in {"pytest", "npm", "go", "cargo", "bundle",
                                  "tox", "make"} :
                            sc.result.value[2][Len(sc.result.value[2])] = w
       /\ sc.outcome.kind = "exit"
          => /\ sc.result.kind = "return"
             /\ sc.result.value[1] = (sc.outcome.returncode = 0)

\* C17 witness: the default test command of the go scanner was not found.
C17_Witness ==
    /\ sc.op = "run_tests"
    /\ sc.scanner = "go"
    /\ sc.command = None
    /\ sc.outcome = [kind |-> "raise", error |-> "FileNotFoundError"]
    /\ sc.result = Return(<<FALSE, <<"Command", "not", "found:", "go">>>>)

\* C18: install_dependencies of every scanner returns (False, message) and
\* does not raise, both when its command timed out and when its executable
\* was not found.
C18_InstallDegradesLikeRunTests ==
    sc.op = "install_dependencies" /\ TimedOutOrNotFound(sc.outcome)
    => ReturnedFailure(sc.result)

\* --------------------------------------------------------- scan: payloads

\* A JSON value as json.loads returns it: None, a number, a str (its
\* characters), a list (its elements) or a dict (its keys and values).
Null == [t |-> "null"]

Num == [t |-> "num"]

Str(chars) == [t |-> "str", v |-> chars]

List(elements) == [t |-> "list", v |-> elements]

Dict(items) == [t |-> "dict", v |-> items]

NoItems == [k \in {} |-> Null]

IsDict(x) == x.t = "dict"

\* key in x, for a dict x.
Has(x, key) == IsDict(x) /\ key \in DOMAIN x.v

\* x.get(key, default), for a dict x.
Get(x, key, default) == IF Has(x, key) THEN x.v[key] ELSE default

\* A set put in a sequence.
RECURSIVE SeqOf(_)
SeqOf(S) ==
    IF S = {} THEN <<>>
    ELSE LET x == CHOOSE y \in S : TRUE IN <<x>> \o SeqOf(S \ {x})

\* A key of a dict as the str it is, kept whole.
KeyStr(key) == IF key = "" THEN Str(<<>>) ELSE Str(<<key>>)

\* for e in x raises TypeError unless x is a list, a dict or a str.
Iterable(x) == x.t \in {"list", "dict", "str"}

\* What for e in x runs through: the elements of a list, the keys of a dict
\* (each a str), the characters of a str.
Items(x) ==
    CASE x.t = "list" -> x.v
      [] x.t = "dict" -> [i \in 1..Cardinality(DOMAIN x.v) |->
                             KeyStr(SeqOf(DOMAIN x.v)[i])]
      [] x.t = "str" -> [i \in DOMAIN x.v |-> Str(<<x.v[i]>>)]

\* ", ".join(x) raises TypeError unless x runs through strs only.
Joinable(x) ==
    /\ Iterable(x)
    /\ \A i \in DOMAIN Items(x) : Items(x)[i].t = "str"

\* The truth value of a JSON value.
Truth(x) ==
    CASE x.t = "null" -> FALSE
      [] x.t = "num" -> TRUE
      [] x.t = "str" -> x.v # <<>>
      [] x.t = "list" -> x.v # <<>>
      [] x.t = "dict" -> DOMAIN x.v # {}

\* The Vulnerability of base.py, with the fields the scanners always set.
Vulnerability(package, version, id) ==
    [package |-> package, version |-> version, id |-> id]

RECURSIVE Concat(_)
Concat(seqs) ==
    IF seqs = <<>> THEN <<>> ELSE Head(seqs) \o Concat(Tail(seqs))

\* The body of a for loop run over its items: the first exception raised
\* ends it, otherwise the records of all items are collected.
Collect(results) ==
    IF \E i \in DOMAIN results : results[i].kind = "raise"
    THEN results[CHOOSE i \in DOMAIN results :
                    /\ results[i].kind = "raise"
                    /\ \A j \in 1..(i - 1) : results[j].kind = "return"]
    ELSE Return(Concat([i \in DOMAIN results |-> results[i].value]))

\* Strings the tools put in their payloads.
Flask == <<"f", "l", "a", "s", "k">>

Version == <<"1", ".", "0">>

Cve == <<"C", "V", "E", "-", "1">>

NoText == <<>>

\* A dict with each of the given keys left out or set to one of its values.
RECURSIVE Dicts(_)
Dicts(fields) ==
    IF DOMAIN fields = {} THEN {NoItems}
    ELSE LET k == CHOOSE key \in DOMAIN fields : TRUE
             rest == Dicts([key \in DOMAIN fields \ {k} |-> fields[key]])
         IN  rest \cup {(k :> val) @@ d : val \in fields[k], d \in rest}

\* Values a payload carries where a package name belongs.
NameValues == {Str(Flask), Str(NoText), Null}

MaxEntries == 2

\* The lists of at most MaxEntries elements of a set.
ListsOf(S) == UNION {[1..n -> S] : n \in 0..MaxEntries}

\* The process output of a scan tool: what it printed on stdout, line by
\* line, a line being JSON text (and the value it parses to) or other text
\* (its words).  json.loads of the whole output succeeds for one line of
\* JSON text only.
JsonLine(data) == [k |-> "json", data |-> data]

TextLine(words) == [k |-> "text", words |-> words]

IsJson(stdout) == Len(stdout) = 1 /\ stdout[1].k = "json"

\* The tool ran and printed stdout; its exit code is not looked at.
Exited(returncode, stdout) ==
    [kind |-> "exit", returncode |-> returncode, stdout |-> stdout]

\* ---------------------------------------------------------- scan: pip-audit

\* What pip-audit --format=json reports for one vulnerability, one
\* dependency, and as a whole; well formed and not.
PipVulns ==
    {Dict(d) : d \in Dicts([id |-> {Str(Cve)}, fix_versions |-> {Null}])}
        \cup {Str(Cve)}

PipVulnLists == {Null, List(<<>>)} \cup {List(<<v>>) : v \in PipVulns}

PipDeps ==
    {Dict(d) : d \in Dicts([name |-> NameValues, vulns |-> PipVulnLists])}
        \cup {Str(Flask)}

PipPayloads ==
    {List(deps) : deps \in ListsOf(PipDeps)}
        \cup {Dict("dependencies" :> List(deps)) : deps \in ListsOf(PipDeps)}
        \cup {Dict("dependencies" :> Null), Dict(NoItems), Null, Num}

\* The body of the loop over dep.get("vulns", []) of PipScanner.scan.
PipVuln(dep, vuln) ==
    IF ~IsDict(vuln) THEN Raise("AttributeError")
    ELSE IF ~Joinable(Get(vuln, "fix_versions", List(<<>>)))
    THEN Raise("TypeError")
    ELSE Return(<<Vulnerability(Get(dep, "name", Str(NoText)),
                                Get(dep, "version", Str(NoText)),
                                Get(vuln, "id", Str(NoText)))>>)

\* The body of the loop over deps of PipScanner.scan.
PipDep(dep) ==
    IF ~Has(dep, "vulns") THEN Return(<<>>)
    ELSE LET vulns == dep.v["vulns"]
         IN  IF ~Iterable(vulns) THEN Raise("TypeError")
             ELSE Collect([i \in DOMAIN Items(vulns) |->
                              PipVuln(dep, Items(vulns)[i])])

\* PipScanner.scan from json.loads on.
PipParse(data) ==
    LET deps == IF Has(data, "dependencies") THEN data.v["dependencies"]
                ELSE IF data.t = "list" THEN data
                ELSE List(<<>>)
    IN  IF ~Iterable(deps) THEN Raise("TypeError")
        ELSE Collect([i \in DOMAIN Items(deps) |-> PipDep(Items(deps)[i])])

\* The characters of \w and the hyphen.
WordChars ==
    {LowerCase[i] : i \in DOMAIN LowerCase}
        \cup {UpperCase[i] : i \in DOMAIN UpperCase}
        \cup {"0", "1", "2", "3", "4", "5", "6", "7", "8", "9", "_", "-"}

IdPrefixes ==
    {<<"C", "V", "E">>, <<"P", "Y", "S", "E", "C">>, <<"G", "H", "S", "A">>}

\* The pattern of _parse_text_output matches a stripped line: two words, a
\* third that is an advisory id, blank space and the rest of the line.
MatchesRow(words) ==
    /\ Len(words) >= 4
    /\ \E p \in IdPrefixes :
        /\ Len(words[3]) > Len(p)
        /\ SubSeq(words[3], 1, Len(p)) = p
        /\ \A i \in (Len(p) + 1)..Len(words[3]) : words[3][i] \in WordChars

\* PipScanner._parse_text_output; run is how its own subprocess.run ends.
PipParseTextOutput(run) ==
    IF run.kind = "raise" THEN Raise(run.error)
    ELSE LET rows == SelectSeq(run.stdout,
                        LAMBDA l : l.k = "text" /\ MatchesRow(l.words))
         IN  Return([i \in DOMAIN rows |->
                        Vulnerability(Str(rows[i].words[1]),
                                      Str(rows[i].words[2]),
                                      Str(rows[i].words[3]))])

\* The first subprocess.run of PipScanner.scan leads to the text parse.
PipFallsBack(first) ==
    \/ first.kind = "raise" /\ first.error = "FileNotFoundError"
    \/ first.kind = "exit" /\ first.stdout # <<>> /\ ~IsJson(first.stdout)

\* PipScanner.scan; runs are the outcomes of its subprocess.run calls.
PipScan(runs) ==
    LET first == runs[1]
    IN  IF PipFallsBack(first) THEN PipParseTextOutput(runs[2])
        ELSE IF first.kind = "raise" THEN Raise(first.error)
        ELSE IF first.stdout = <<>> THEN Return(<<>>)
        ELSE PipParse(first.stdout[1].data)

\* ---------------------------------------------------------- scan: cargo audit

\* x[0], for an x that is true: an exception unless x is a list or a str.
FirstRaises(x) == x.t \in {"num", "dict"}

\* What cargo audit --json reports.
RustPackages == {Dict(d) : d \in Dicts([name |-> NameValues])} \cup {Null}

RustVersions == {Dict("patched" :> List(<<Str(Version)>>)), Null}

RustVulns ==
    {Dict(("advisory" :> Dict("id" :> Str(Cve))) @@ d) :
        d \in Dicts([package |-> RustPackages, versions |-> RustVersions])}
        \cup {Str(Cve)}

RustPayloads ==
    {Dict("vulnerabilities" :> Dict("list" :> List(l))) :
        l \in ListsOf(RustVulns)}
        \cup {Dict("vulnerabilities" :> Null),
              Dict("vulnerabilities" :> Dict("list" :> Null)),
              Dict(NoItems), List(<<>>), Null}

\* The body of the loop of RustScanner.scan.
RustVuln(vuln) ==
    IF ~IsDict(vuln) THEN Raise("AttributeError")
    ELSE LET advisory == Get(vuln, "advisory", Dict(NoItems))
             pkg == Get(vuln, "package", Dict(NoItems))
             versions == Get(vuln, "versions", Dict(NoItems))
             patched == Get(versions, "patched", List(<<>>))
         IN  IF ~IsDict(versions) THEN Raise("AttributeError")
             ELSE IF Truth(patched) /\ FirstRaises(patched)
             THEN Raise(IF IsDict(patched) THEN "KeyError" ELSE "TypeError")
             ELSE IF ~IsDict(pkg) \/ ~IsDict(advisory)
             THEN Raise("AttributeError")
             ELSE Return(<<Vulnerability(Get(pkg, "name", Str(NoText)),
                                         Get(pkg, "version", Str(NoText)),
                                         Get(advisory, "id", Str(NoText)))>>)

\* RustScanner.scan from json.loads on.
RustParse(data) ==
    IF ~IsDict(data) THEN Raise("AttributeError")
    ELSE LET vulnerabilities == Get(data, "vulnerabilities", Dict(NoItems))
             list == Get(vulnerabilities, "list", List(<<>>))
         IN  IF ~IsDict(vulnerabilities) THEN Raise("AttributeError")
             ELSE IF ~Iterable(list) THEN Raise("TypeError")
             ELSE Collect([i \in DOMAIN Items(list) |->
                              RustVuln(Items(list)[i])])

\* RustScanner.scan; runs holds the outcome of its one subprocess.run.
RustScan(runs) ==
    LET first == runs[1]
    IN  IF first.kind = "raise"
        THEN IF first.error = "FileNotFoundError" THEN Return(<<>>)
             ELSE Raise(first.error)
        ELSE IF first.stdout = <<>> \/ ~IsJson(first.stdout) THEN Return(<<>>)
        ELSE RustParse(first.stdout[1].data)

\* ---------------------------------------------------------- scan: govulncheck

\* What govulncheck -json prints, one message a line.
GoModules == {Dict(d) : d \in Dicts([path |-> NameValues])} \cup {Str(Flask)}

GoModuleLists == {Null, List(<<>>)} \cup {List(<<m>>) : m \in GoModules}

GoVulns ==
    {Dict(("osv" :> Dict("id" :> Str(Cve))) @@ d) :
        d \in Dicts([modules |-> GoModuleLists])}
        \cup {Null}

GoMessages ==
    {Dict("vulnerability" :> v) : v \in GoVulns}
        \cup {Dict("progress" :> Str(NoText)), List(<<>>), Num, Null}

GoLines == {TextLine(<<Flask>>)} \cup {JsonLine(d) : d \in GoMessages}

\* key in x raises TypeError for None and for a number.
InRaises(x) == x.t \in {"null", "num"}

\* The body of the loop over modules of GoScanner.scan.
GoModule(osv, mod) ==
    IF ~IsDict(mod) \/ ~IsDict(osv) THEN Raise("AttributeError")
    ELSE Return(<<Vulnerability(Get(mod, "path", Str(NoText)),
                                Get(mod, "found_version", Str(NoText)),
                                Get(osv, "id", Str(NoText)))>>)

\* The body of the loop over the lines of GoScanner.scan.
GoLine(line) ==
    IF line.k = "text" THEN Return(<<>>)
    ELSE LET data == line.data
         IN  IF InRaises(data) THEN Raise("TypeError")
             ELSE IF ~Has(data, "vulnerability") THEN Return(<<>>)
             ELSE LET vuln == data.v["vulnerability"]
                      osv == Get(vuln, "osv", Dict(NoItems))
                      modules == Get(vuln, "modules", List(<<>>))
                  IN  IF ~IsDict(vuln) THEN Raise("AttributeError")
                      ELSE IF ~Iterable(modules) THEN Raise("TypeError")
                      ELSE Collect([i \in DOMAIN Items(modules) |->
                                       GoModule(osv, Items(modules)[i])])

\* GoScanner.scan; runs holds the outcome of its one subprocess.run.
GoScan(runs) ==
    LET first == runs[1]
    IN  IF first.kind = "raise"
        THEN IF first.error = "FileNotFoundError" THEN Return(<<>>)
             ELSE Raise(first.error)
        ELSE Collect([i \in DOMAIN first.stdout |-> GoLine(first.stdout[i])])

\* --------------------------------------------------------- scan: bundle-audit

\* What bundle-audit check --format json reports.
RubyGems == {Dict(d) : d \in Dicts([name |-> NameValues])} \cup {Null}

RubyAdvisories ==
    {Dict("cve" :> Str(Cve)),
     Dict("ghsa" :> Str(Cve) @@ "patched_versions" :> List(<<Str(Version)>>))}

RubyFindings ==
    {Dict(d) : d \in Dicts([gem |-> RubyGems, advisory |-> RubyAdvisories])}
        \cup {Str(Cve)}

RubyPayloads ==
    {Dict("results" :> List(l)) : l \in ListsOf(RubyFindings)}
        \cup {Dict("results" :> Null), Dict(NoItems), List(<<>>), Null}

\* a.get("cve") or a.get("osvdb") or a.get("ghsa", "")
RubyId(advisory) ==
    IF Truth(Get(advisory, "cve", Null)) THEN advisory.v["cve"]
    ELSE IF Truth(Get(advisory, "osvdb", Null)) THEN advisory.v["osvdb"]
    ELSE Get(advisory, "ghsa", Str(NoText))

\* The body of the loop of RubyScanner.scan.
RubyFinding(finding) ==
    IF ~IsDict(finding) THEN Raise("AttributeError")
    ELSE LET advisory == Get(finding, "advisory", Dict(NoItems))
             gem == Get(finding, "gem", Dict(NoItems))
             patched == Get(advisory, "patched_versions", Null)
         IN  IF ~IsDict(gem) \/ ~IsDict(advisory) THEN Raise("AttributeError")
             ELSE IF Truth(patched) /\ FirstRaises(patched)
             THEN Raise(IF IsDict(patched) THEN "KeyError" ELSE "TypeError")
             ELSE Return(<<Vulnerability(Get(gem, "name", Str(NoText)),
                                         Get(gem, "version", Str(NoText)),
                                         RubyId(advisory))>>)

\* RubyScanner.scan from json.loads on.
RubyParse(data) ==
    IF ~IsDict(data) THEN Raise("AttributeError")
    ELSE LET results == Get(data, "results", List(<<>>))
         IN  IF ~Iterable(results) THEN Raise("TypeError")
             ELSE Collect([i \in DOMAIN Items(results) |->
                              RubyFinding(Items(results)[i])])

\* The labels _parse_text_output looks for at the start of a line.
NameLabel == <<"N", "a", "m", "e", ":">>

VersionLabel == <<"V", "e", "r", "s", "i", "o", "n", ":">>

CveLabel == <<"C", "V", "E", ":">>

GhsaLabel == <<"G", "H", "S", "A", ":">>

\* line.split(":", 1)[1].strip() of a line that is a label and a value.
ValueOf(words) == IF Len(words) > 1 THEN words[2] ELSE NoText

\* The loop over the lines of RubyScanner._parse_text_output: current is
\* the record being filled, found the records appended so far.
RECURSIVE RubyLines(_, _, _)
RubyLines(lines, current, found) ==
    IF lines = <<>> THEN found
    ELSE LET words == Head(lines).words
             label == IF words = <<>> THEN NoText ELSE words[1]
         IN  CASE label = NameLabel ->
                    RubyLines(Tail(lines),
                              [current EXCEPT !.package = ValueOf(words)],
                              found)
               [] label = VersionLabel ->
                    RubyLines(Tail(lines),
                              [current EXCEPT !.version = ValueOf(words)],
                              found)
               [] label \in {CveLabel, GhsaLabel} ->
                    RubyLines(Tail(lines),
                              [current EXCEPT !.id = ValueOf(words)],
                              found)
               [] words = <<>> /\ current.package # NoText ->
                    RubyLines(Tail(lines),
                              [package |-> NoText, version |-> NoText,
                               id |-> NoText],
                              Append(found,
                                     Vulnerability(Str(current.package),
                                                   Str(current.version),
                                                   Str(current.id))))
               [] OTHER -> RubyLines(Tail(lines), current, found)

\* RubyScanner._parse_text_output; run is how its own subprocess.run ends.
RubyParseTextOutput(run) ==
    IF run.kind = "raise" THEN Raise(run.error)
    ELSE Return(RubyLines(run.stdout,
                          [package |-> NoText, version |-> NoText,
                           id |-> NoText],
                          <<>>))

\* The check of RubyScanner.scan leads to the text parse.
RubyFallsBack(check) ==
    \/ check.kind = "raise" /\ check.error = "FileNotFoundError"
    \/ check.kind = "exit" /\ check.stdout # <<>> /\ ~IsJson(check.stdout)

\* RubyScanner.scan; runs are the outcomes of bundle-audit update, of
\* bundle-audit check --format json and of the bundle-audit check of the
\* text parse.
RubyScan(runs) ==
    LET update == runs[1]
    IN  IF update.kind = "raise" THEN Raise(update.error)
        ELSE LET check == runs[2]
             IN  IF RubyFallsBack(check) THEN RubyParseTextOutput(runs[3])
                 ELSE IF check.kind = "raise" THEN Raise(check.error)
                 ELSE IF check.stdout = <<>> THEN Return(<<>>)
                 ELSE RubyParse(check.stdout[1].data)

\* ------------------------------------------------------------ scan: npm audit

\* What npm audit --json reports, in its two formats.
NpmVulnData ==
    {Dict(d) : d \in Dicts([via |-> {List(<<Dict("url" :> Str(Cve))>>),
                                     List(<<Str(Flask)>>)}])}
        \cup {Null}

NpmAdvisories ==
    {Dict(d) : d \in Dicts([module_name |-> NameValues])} \cup {Null}

\* The dicts with some of the keys, each with one of the values.
DictsOver(keys, values) ==
    UNION {[ks -> values] : ks \in SUBSET keys}

NpmPayloads ==
    {Dict("vulnerabilities" :> Dict(d)) :
        d \in DictsOver({"flask", ""}, NpmVulnData)}
        \cup {Dict("advisories" :> Dict(d)) :
                d \in DictsOver({"1", "2"}, NpmAdvisories)}
        \cup {Dict("vulnerabilities" :> Dict(d) @@ "advisories" :> Dict(a)) :
                d \in DictsOver({"flask"}, NpmVulnData),
                a \in DictsOver({"1"}, NpmAdvisories)}
        \cup {Dict("vulnerabilities" :> Null), Dict("advisories" :> Null),
              Dict(NoItems), List(<<>>), Num, Null}

\* The body of the loop over data["vulnerabilities"].items().
NpmVulnerability(pkg_name, vuln_data) ==
    IF ~IsDict(vuln_data) THEN Raise("AttributeError")
    ELSE LET via == Get(vuln_data, "via", List(<<>>))
         IN  IF via.t = "list" /\ Truth(via) /\ ~IsDict(via.v[1])
             THEN Raise("AttributeError")
             ELSE Return(<<Vulnerability(
                             KeyStr(pkg_name),
                             Get(vuln_data, "range", Str(NoText)),
                             IF via.t = "list" /\ Truth(via)
                             THEN Get(via.v[1], "url", Str(NoText))
                             ELSE Str(NoText))>>)

\* The body of the loop over data["advisories"].items().
NpmAdvisory(advisory_id, advisory) ==
    IF ~IsDict(advisory) THEN Raise("AttributeError")
    ELSE Return(<<Vulnerability(
                    Get(advisory, "module_name", Str(NoText)),
                    Get(advisory, "vulnerable_versions", Str(NoText)),
                    Str(<<"npm:", advisory_id>>))>>)

\* NpmScanner.scan from json.loads on.
NpmParse(data) ==
    IF InRaises(data) THEN Raise("TypeError")
    ELSE IF Has(data, "vulnerabilities")
    THEN LET items == data.v["vulnerabilities"]
         IN  IF ~IsDict(items) THEN Raise("AttributeError")
             ELSE Collect([i \in 1..Cardinality(DOMAIN items.v) |->
                            LET key == SeqOf(DOMAIN items.v)[i]
                            IN  NpmVulnerability(key, items.v[key])])
    ELSE IF Has(data, "advisories")
    THEN LET items == data.v["advisories"]
         IN  IF ~IsDict(items) THEN Raise("AttributeError")
             ELSE Collect([i \in 1..Cardinality(DOMAIN items.v) |->
                            LET key == SeqOf(DOMAIN items.v)[i]
                            IN  NpmAdvisory(key, items.v[key])])
    ELSE Return(<<>>)

\* NpmScanner.scan; runs holds the outcome of its one subprocess.run.
NpmScan(runs) ==
    LET first == runs[1]
    IN  IF first.kind = "raise"
        THEN IF first.error = "FileNotFoundError" THEN Return(<<>>)
             ELSE Raise(first.error)
        ELSE IF first.stdout = <<>> \/ ~IsJson(first.stdout) THEN Return(<<>>)
        ELSE NpmParse(first.stdout[1].data)

\* ------------------------------------------------------------ scan: calls

\* What a tool prints that is no JSON.
Garbage == <<TextLine(<<<<"E", "R", "R", "O", "R">>>>)>>

\* What pip-audit prints in its table format, and bundle-audit check in
\* its text format.
TextOutputs(scanner) ==
    CASE scanner = "pip" ->
            {<<>>,
             <<TextLine(<<Flask, Version, <<"I", "D">>, <<"F", "i", "x">>>>),
               TextLine(<<Flask, Version, Cve, <<"2", ".", "0">>>>)>>,
             <<TextLine(<<Flask, Version, Cve>>)>>}
      [] scanner = "ruby" ->
            {<<>>,
             <<TextLine(<<NameLabel, Flask>>), TextLine(<<VersionLabel, Version>>),
               TextLine(<<CveLabel, Cve>>), TextLine(<<>>)>>,
             <<TextLine(<<NameLabel>>), TextLine(<<CveLabel, Cve>>),
               TextLine(<<>>)>>,
             <<TextLine(<<NameLabel, Flask>>), TextLine(<<GhsaLabel, Cve>>)>>}

\* The documents a scanner's tool may print.
Payloads(scanner) ==
    CASE scanner = "pip" -> PipPayloads
      [] scanner = "npm" -> NpmPayloads
      [] scanner = "rust" -> RustPayloads
      [] scanner = "ruby" -> RubyPayloads

\* The exit codes of a scan tool: 0, and 1 for vulnerabilities found.
ScanExitCodes == {0, 1}

\* The tool of a scanner is not on PATH.
Missing == Raise("FileNotFoundError")

\* The outcomes of the subprocess.run calls of one scan: the tool is
\* missing for all of them or for none, and a call that is not made has no
\* outcome.
JsonRuns(scanner) ==
    {Exited(c, out) : c \in ScanExitCodes,
        out \in {<<>>, Garbage}
                    \cup {<<JsonLine(d)>> : d \in Payloads(scanner)}}

LineRuns ==
    {Exited(c, out) : c \in ScanExitCodes, out \in ListsOf(GoLines)}

TextRuns(scanner) ==
    {Exited(c, out) : c \in ScanExitCodes, out \in TextOutputs(scanner)}

ScanRuns(scanner) ==
    CASE scanner = "pip" ->
            {<<Missing, Missing>>}
                \cup {<<a>> : a \in {x \in JsonRuns("pip") : ~PipFallsBack(x)}}
                \cup {<<a, b>> : a \in {x \in JsonRuns("pip") : PipFallsBack(x)},
                                 b \in TextRuns("pip")}
      [] scanner = "ruby" ->
            {<<Missing>>}
                \cup {<<Exited(c, <<>>), a>> : c \in ScanExitCodes,
                        a \in {x \in JsonRuns("ruby") : ~RubyFallsBack(x)}}
                \cup {<<Exited(c, <<>>), a, b>> : c \in ScanExitCodes,
                        a \in {x \in JsonRuns("ruby") : RubyFallsBack(x)},
                        b \in TextRuns("ruby")}
      [] scanner = "go" -> {<<Missing>>} \cup {<<a>> : a \in LineRuns}
      [] OTHER -> {<<Missing>>} \cup {<<a>> : a \in JsonRuns(scanner)}

\* Scanner.scan of the five scanners.
scan(scanner, runs) ==
    CASE scanner = "pip" -> PipScan(runs)
      [] scanner = "npm" -> NpmScan(runs)
      [] scanner = "go" -> GoScan(runs)
      [] scanner = "rust" -> RustScan(runs)
      [] scanner = "ruby" -> RubyScan(runs)

\* A call of scan.
ScanCall ==
    /\ sc = NoCall
    /\ \E s \in Scanners : \E r \in ScanRuns(s) :
        sc' = [op |-> "scan", scanner |-> s, runs |-> r,
               result |-> scan(s, r)]
    /\ UNCHANGED <<self, env, pc, iteration, initial_count, current_vulns,
                   prompt, local, log, files, now, events, ret>>

\* The tool of the scan is missing.
ToolMissing == sc.runs[1] = Missing

\* A run of the tool has ended with an exit code that is not 0.
ExitedNonZero ==
    \E i \in DOMAIN sc.runs :
        sc.runs[i].kind = "exit" /\ sc.runs[i].returncode # 0

\* What the tool printed where the scan looks for JSON.
ParsedOutput == sc.runs[IF sc.scanner = "ruby" THEN 2 ELSE 1].stdout

\* A package name that is a str with characters in it.
NonEmptyPackage(v) == v.package.t = "str" /\ v.package.v # <<>>

\* C15: scan returns an empty list when the tool's executable is missing,
\* and returns a list when the tool has exited with a non-zero code.
C15_ScanSurvivesMissingOrFailingTool ==
    sc.op = "scan"
    => /\ ToolMissing => sc.result = Return(<<>>)
       /\ ExitedNonZero => sc.result.kind = "return"

\* C16: scan never raises on what the tool prints: for output that is no
\* JSON it returns the empty list or, in pip and ruby, the records of the
\* text parse, and for JSON of any shape it returns a list.
C16_ScanSurvivesAnyOutput ==
    (sc.op = "scan" /\ ~ToolMissing /\ ParsedOutput # <<>>)
    => /\ sc.result.kind = "return"
       /\ (\A i \in DOMAIN ParsedOutput : ParsedOutput[i].k = "text")
          => \/ sc.result.value = <<>>
             \/ /\ sc.scanner \in {"pip", "ruby"}
                /\ sc.result = IF sc.scanner = "pip"
                               THEN PipParseTextOutput(sc.runs[2])
                               ELSE RubyParseTextOutput(sc.runs[3])

\* C19: every record a scan returns has a package name that is not empty.
C19_NoRecordWithoutPackage ==
    (sc.op = "scan" /\ sc.result.kind = "return")
    => \A i \in DOMAIN sc.result.value : NonEmptyPackage(sc.result.value[i])

\* C24: NpmScanner.scan, given a JSON object, returns one record for each
\* entry of its "vulnerabilities" map when it has one (whether or not it
\* has "advisories" too), else one record for each entry of its
\* "advisories" map when it has one, and the empty list when it has
\* neither key.
C24_NpmSelectsPathByKey ==
    (sc.op = "scan" /\ sc.scanner = "npm" /\ ~ToolMissing
        /\ IsJson(ParsedOutput) /\ IsDict(ParsedOutput[1].data))
    => LET data == ParsedOutput[1].data
           r == sc.result
       IN  IF Has(data, "vulnerabilities")
           THEN IsDict(data.v["vulnerabilities"])
                => /\ r.kind = "return"
                   /\ Len(r.value) =
                        Cardinality(DOMAIN data.v["vulnerabilities"].v)
                   /\ {r.value[i].package : i \in DOMAIN r.value} =
                        {KeyStr(k) : k \in DOMAIN data.v["vulnerabilities"].v}
           ELSE IF Has(data, "advisories")
           THEN IsDict(data.v["advisories"])
                => /\ r.kind = "return"
                   /\ Len(r.value) =
                        Cardinality(DOMAIN data.v["advisories"].v)
                   /\ {r.value[i].id : i \in DOMAIN r.value} =
                        {Str(<<"npm:", k>>) :
                            k \in DOMAIN data.v["advisories"].v}
           ELSE r = Return(<<>>)

\* ------------------------------------------------------ ecosystem detection

\* indicators of detect_ecosystem in secloop/scanners/__init__.py, in the
\* order of the dict.
Indicators ==
    <<[ecosystem |-> "pip",
       files |-> <<"requirements.txt", "pyproject.toml", "setup.py",
                   "Pipfile">>],
      [ecosystem |-> "npm",
       files |-> <<"package.json", "package-lock.json", "yarn.lock">>],
      [ecosystem |-> "go", files |-> <<"go.mod", "go.sum">>],
      [ecosystem |-> "rust", files |-> <<"Cargo.toml", "Cargo.lock">>],
      [ecosystem |-> "ruby", files |-> <<"Gemfile", "Gemfile.lock">>]>>

\* indicators of detect_ecosystem in ralph/config.py.
RalphIndicators ==
    <<[ecosystem |-> "pip",
       files |-> <<"requirements.txt", "pyproject.toml", "setup.py",
                   "Pipfile">>],
      [ecosystem |-> "npm",
       files |-> <<"package.json", "package-lock.json", "yarn.lock">>],
      [ecosystem |-> "cargo", files |-> <<"Cargo.toml", "Cargo.lock">>],
      [ecosystem |-> "go", files |-> <<"go.mod", "go.sum">>]>>

\* detect_ecosystem: the first ecosystem, in the order of the dict, one of
\* whose files exists in the project.
detect_ecosystem(indicators, project) ==
    LET hits == {i \in DOMAIN indicators :
                    \E j \in DOMAIN indicators[i].files :
                        indicators[i].files[j] \in project}
    IN  IF hits = {} THEN "unknown"
        ELSE indicators[CHOOSE i \in hits : \A j \in hits : i <= j].ecosystem

\* The file names get_dependencies_file of each scanner looks for.
DependencyFiles(scanner) ==
    CASE scanner = "pip" -> <<"requirements.txt", "pyproject.toml", "setup.py">>
      [] scanner = "npm" -> <<"package.json">>
      [] scanner = "go" -> <<"go.mod">>
      [] scanner = "rust" -> <<"Cargo.toml">>
      [] scanner = "ruby" -> <<"Gemfile.lock", "Gemfile">>

\* get_dependencies_file: the first of the scanner's files that exists.
get_dependencies_file(scanner, project) ==
    LET names == DependencyFiles(scanner)
        hits == {j \in DOMAIN names : names[j] \in project}
    IN  IF hits = {} THEN None
        ELSE names[CHOOSE j \in hits : \A k \in hits : j <= k]

\* An ecosystem identifier as the characters it is written with.
Chars(ecosystem) ==
    CASE ecosystem = "pip" -> <<"p", "i", "p">>
      [] ecosystem = "npm" -> <<"n", "p", "m">>
      [] ecosystem = "go" -> <<"g", "o">>
      [] ecosystem = "rust" -> <<"r", "u", "s", "t">>
      [] ecosystem = "cargo" -> <<"c", "a", "r", "g", "o">>
      [] ecosystem = "ruby" -> <<"r", "u", "b", "y">>

\* Scanner.name of each scanner class.
ScannerName(type) ==
    CASE type = "PipScanner" -> "pip"
      [] type = "NpmScanner" -> "npm"
      [] type = "GoScanner" -> "go"
      [] type = "RustScanner" -> "rust"
      [] type = "RubyScanner" -> "ruby"

\* get_scanner of ralph/scanners/__init__.py: two keys, looked up as given.
RalphGetScanner(ecosystem) ==
    IF ecosystem = "pip" THEN [kind |-> "return", type |-> "PipScanner"]
    ELSE IF ecosystem = "npm" THEN [kind |-> "return", type |-> "NpmScanner"]
    ELSE [kind |-> "raise", error |-> "ValueError",
          unsupported |-> ecosystem]

\* The files of the indicators.
IndicatorFiles ==
    UNION {{Indicators[i].files[j] : j \in DOMAIN Indicators[i].files} :
            i \in DOMAIN Indicators}

MaxFiles == 2

\* Projects: the indicator files a project directory holds.
Projects == {p \in SUBSET IndicatorFiles : Cardinality(p) <= MaxFiles}

\* The run command on a project without --ecosystem, up to the
\* dependencies file check: detect_ecosystem, get_scanner and, for a
\* scanner, get_dependencies_file.
DetectCall ==
    /\ sc = NoCall
    /\ \E package \in {"secloop", "ralph"}, project \in Projects :
        LET ecosystem ==
                detect_ecosystem(IF package = "secloop" THEN Indicators
                                 ELSE RalphIndicators, project)
            resolved ==
                IF ecosystem = "unknown" THEN NoCall
                ELSE IF package = "secloop" THEN GetScanner(Chars(ecosystem))
                ELSE RalphGetScanner(ecosystem)
        IN  sc' = [op |-> "detect", package |-> package,
                   project |-> project, ecosystem |-> ecosystem,
                   scanner |-> resolved,
                   deps_file |->
                        IF "type" \in DOMAIN resolved
                        THEN get_dependencies_file(
                                ScannerName(resolved.type), project)
                        ELSE None]
    /\ UNCHANGED <<self, env, pc, iteration, initial_count, current_vulns,
                   prompt, local, log, files, now, events, ret>>

\* C28: in secloop, a project whose ecosystem is detected has a
\* dependencies file for the scanner the registry resolves.
C28_DetectedEcosystemHasManifest ==
    (sc.op = "detect" /\ sc.package = "secloop" /\ sc.ecosystem # "unknown")
    => /\ sc.scanner.kind = "return"
       /\ sc.deps_file # None

\* C29: in ralph, every detected ecosystem is one get_scanner accepts.
C29_RalphDetectedEcosystemSupported ==
    (sc.op = "detect" /\ sc.package = "ralph" /\ sc.ecosystem # "unknown")
    => sc.scanner.kind = "return"

\* ------------------------------------------------------------ secret scan

MaxSecretLen == 5

\* Raw secrets gitleaks reports, as their characters.
RawSecrets == UNION {[1..n -> {"a", "b"}] : n \in 0..MaxSecretLen}

Stars(n) == [i \in 1..n |-> "*"]

\* Redact, had a short secret been passed on as it is.
Redact_ShortAsIs(secret_val) ==
    IF Len(secret_val) > 4
    THEN SubSeq(secret_val, 1, 4) \o Stars(Len(secret_val) - 4)
    ELSE secret_val

\* secret_val[:4] + "*" * (len(secret_val) - 4) if len(secret_val) > 4
\* else "****"
Redact(secret_val) ==
    IF Len(secret_val) > 4
    THEN SubSeq(secret_val, 1, 4) \o Stars(Len(secret_val) - 4)
    ELSE Stars(4)

\* The Secret of secrets.py, with its file and its redacted secret.
Secret(file, secret) == [file |-> file, secret |-> secret]

\* What gitleaks reports for one finding, and as a whole: one finding or
\* two, and reports of another shape.
Findings ==
    {Dict("Secret" :> Str(s)) : s \in RawSecrets} \cup {Dict(NoItems)}

SecretReports ==
    {List(<<f>>) : f \in Findings}
        \cup {List(<<f, g>>) : f \in Findings, g \in Findings}
        \cup {List(<<>>), List(<<Dict("Secret" :> Null)>>), List(<<Null>>),
              Null}

\* The body of the loop over findings of SecretScanner.scan and
\* scan_git_history.
SecretFinding(finding) ==
    IF ~IsDict(finding) THEN Raise("AttributeError")
    ELSE LET secret_val == Get(finding, "Secret", Str(NoText))
         IN  IF secret_val.t # "str" THEN Raise("TypeError")
             ELSE Return(<<Secret(Get(finding, "File", Str(NoText)),
                                  Redact(secret_val.v))>>)

\* SecretScanner.scan and scan_git_history, which differ in the gitleaks
\* options and in the author field only; run is how subprocess.run ends.
SecretScan(run) ==
    IF run.kind = "raise"
    THEN IF run.error = "FileNotFoundError" THEN Return(<<>>)
         ELSE Raise(run.error)
    ELSE IF run.stdout = <<>> \/ ~IsJson(run.stdout) THEN Return(<<>>)
    ELSE LET findings == run.stdout[1].data
         IN  IF ~Iterable(findings) THEN Raise("TypeError")
             ELSE Collect([i \in DOMAIN Items(findings) |->
                              SecretFinding(Items(findings)[i])])

\* A call of SecretScanner.scan or scan_git_history.
SecretScanCall ==
    /\ sc = NoCall
    /\ \E method \in {"scan", "scan_git_history"} :
       \E run \in {Missing, Exited(0, <<>>), Exited(1, Garbage)}
                    \cup {Exited(1, <<JsonLine(r)>>) : r \in SecretReports} :
        sc' = [op |-> "secrets", method |-> method, run |-> run,
               result |-> SecretScan(run)]
    /\ UNCHANGED <<self, env, pc, iteration, initial_count, current_vulns,
                   prompt, local, log, files, now, events, ret>>

\* The raw secrets of the findings gitleaks reported in the call.
RawOf(call) ==
    LET findings == call.run.stdout[1].data.v
    IN  [i \in DOMAIN findings |-> Get(findings[i], "Secret", Str(NoText)).v]

\* C30: the secret of every Secret emitted is, for a raw secret of more
\* than four characters, its first four characters and asterisks up to its
\* length, and "****" otherwise; two raw secrets of one length with the
\* same first four characters are emitted as the same text.
C30_SecretRedacted ==
    (sc.op = "secrets" /\ sc.result.kind = "return" /\ sc.result.value # <<>>)
    => LET raw == RawOf(sc)
           out == [i \in DOMAIN sc.result.value |-> sc.result.value[i].secret]
       IN  /\ Len(out) = Len(raw)
           /\ \A i \in DOMAIN out :
                IF Len(raw[i]) > 4
                THEN /\ Len(out[i]) = Len(raw[i])
                     /\ \A k \in 1..4 : out[i][k] = raw[i][k]
                     /\ \A k \in 5..Len(out[i]) : out[i][k] = "*"
                ELSE out[i] = <<"*", "*", "*", "*">>
           /\ \A i, j \in DOMAIN out :
                (Len(raw[i]) = Len(raw[j])
                    /\ \A k \in 1..4 :
                        k <= Len(raw[i]) => raw[i][k] = raw[j][k])
                => out[i] = out[j]

\* C30 witness: two different secrets of five characters with the same
\* first four were emitted as the same text.
C30_Witness ==
    /\ sc.op = "secrets"
    /\ sc.method = "scan_git_history"
    /\ sc.result.kind = "return"
    /\ Len(sc.result.value) = 2
    /\ RawOf(sc) = <<<<"a", "b", "a", "b", "a">>, <<"a", "b", "a", "b", "b">>>>
    /\ sc.result.value[1].secret = <<"a", "b", "a", "b", "*">>
    /\ sc.result.value[2].secret = sc.result.value[1].secret

\* ------------------------------------------------ the scanner layer alone

\* No run is in progress: a configured loop that has not been started.  The
\* calls on the scanner layer keep no state between them, so each is made
\* from here.
InitScanners ==
    /\ InitHang
    /\ self.max_iterations = MaxIter

NextScanners ==
    \/ GetScannerCall
    \/ RunTestsCall
    \/ InstallDependenciesCall
    \/ ScanCall
    \/ DetectCall
    \/ SecretScanCall

SpecScanners == InitScanners /\ [][NextScanners]_vars

====
